---- MODULE Spec2Model ----
(***************************************************************************)
(* Model of the lead scraper: the validators (validators.py), the contact  *)
(* crawler (email_finder.py), the result-collection loop and the scrape    *)
(* run (maps_scraper.py).                                                  *)
(*                                                                         *)
(* Python strings are modelled as sequences of one-character strings, so   *)
(* that stripping, lower-casing, splitting and the regular expressions are *)
(* computed character by character as the code computes them.              *)
(***************************************************************************)
EXTENDS Integers, Sequences, FiniteSets, TLC

VARIABLES
    \* ---- validators, applied to one input (SpecPhone)
    v_pc, raw, phone, phone2,
    \* ---- _collect_place_urls: the call's position, argument and locals
    c_pc, max_items, urls, stagnant_rounds, previous_count, round, place_urls,
    \* the search surface: how far down its feed it has rendered so far
    feed_upto,
    \* history of the call: consecutive latest rounds without growth, the
    \* last round that grew the set, scrolls triggered, how the loop ended,
    \* whether the query was submitted, how many locations were collected
    no_growth_run, last_growth, scrolls, exit_kind, submitted, collected,
    \* ---- find_email: the call's position, its argument, the web it runs on,
    \* the finder's page budget, and the locals of _crawl_for_email
    k_pc, website_url, site, max_pages, netloc, visited, queue, pages_visited,
    \* what the call returned
    email_result,
    \* history of the call: the requests sent, in order, every URL that was
    \* ever put into the queue, and the URLs taken from the queue and skipped
    \* as visited
    fetch_log, enqueued, skipped,
    \* ---- scrape: its position, the targets, the index of the target and of
    \* the place being processed, and its locals all_leads and seen_keys
    s_pc, targets, t_idx, p_idx, all_leads, seen_keys,
    \* history of the run: the target each Lead of all_leads came from, the
    \* last record dropped as a duplicate, the targets without search input
    lead_target, last_dup, no_input_targets,
    \* ---- _parse_city_state, applied to one address: its position, its
    \* argument and the pair it returns
    a_pc, address_in, city_state

phone_vars == <<v_pc, raw, phone, phone2>>

collect_vars == <<c_pc, max_items, urls, stagnant_rounds, previous_count, round,
                  place_urls, feed_upto, no_growth_run, last_growth, scrolls,
                  exit_kind, submitted, collected>>

crawl_vars == <<k_pc, website_url, site, max_pages, netloc, visited, queue,
                pages_visited, email_result, fetch_log, enqueued, skipped>>

scrape_vars == <<s_pc, targets, t_idx, p_idx, all_leads, seen_keys, lead_target,
                 last_dup, no_input_targets>>

address_vars == <<a_pc, address_in, city_state>>

vars == <<phone_vars, collect_vars, crawl_vars, scrape_vars, address_vars>>

(***************************************************************************)
(* Strings                                                                 *)
(***************************************************************************)
\* Python's None, as a value comparable with (and different from) every string
None == <<"<None>">>

\* Python truthiness of an Optional[str]: None and "" are both falsy
Falsy(s) == s = None \/ s = <<>>

DigitChars == {"0", "1", "2", "3", "4", "5", "6", "7", "8", "9"}

UpperSeq == <<"A", "B", "C", "D", "E", "F", "G", "H", "I", "J", "K", "L", "M",
              "N", "O", "P", "Q", "R", "S", "T", "U", "V", "W", "X", "Y", "Z">>

LowerSeq == <<"a", "b", "c", "d", "e", "f", "g", "h", "i", "j", "k", "l", "m",
              "n", "o", "p", "q", "r", "s", "t", "u", "v", "w", "x", "y", "z">>

UpperChars == {UpperSeq[i] : i \in 1..Len(UpperSeq)}

LowerChars == {LowerSeq[i] : i \in 1..Len(LowerSeq)}

LetterChars == UpperChars \cup LowerChars

\* \s of the regular expressions and the characters str.strip() removes
SpaceChars == {" ", "\t", "\n"}

\* \w of the regular expressions
WordChars == LetterChars \cup DigitChars \cup {"_"}

IsDigit(c) == c \in DigitChars

LowerChar(c) ==
    IF c \in UpperChars
    THEN LowerSeq[CHOOSE i \in 1..Len(UpperSeq) : UpperSeq[i] = c]
    ELSE c

\* str.lower()
Lower(s) == [i \in 1..Len(s) |-> LowerChar(s[i])]

\* s[a:b] with 1-based inclusive bounds; empty when a > b
Slice(s, a, b) == IF a > b THEN <<>> ELSE SubSeq(s, a, b)

\* str.strip()
Strip(s) ==
    LET keep == {i \in 1..Len(s) : s[i] \notin SpaceChars}
    IN  IF keep = {} THEN <<>>
        ELSE LET lo == CHOOSE i \in keep : \A j \in keep : i <= j
                 hi == CHOOSE i \in keep : \A j \in keep : j <= i
             IN  SubSeq(s, lo, hi)

\* str.startswith(p)
StartsWith(s, p) == Len(s) >= Len(p) /\ SubSeq(s, 1, Len(p)) = p

\* str.endswith(p)
EndsWith(s, p) == Len(s) >= Len(p) /\ SubSeq(s, Len(s) - Len(p) + 1, Len(s)) = p

\* p in s (substring test)
Contains(s, p) ==
    \E i \in 1..(Len(s) - Len(p) + 1) : SubSeq(s, i, i + Len(p) - 1) = p

(***************************************************************************)
(* validators.py                                                           *)
(***************************************************************************)
\* [\s.-] of US_PHONE_REGEX
PhoneSepChars == SpaceChars \cup {".", "-"}

\* The regular expressions are matched by sets of positions: a position is
\* the index of the next character to read, and each operator maps the set
\* of positions where a prefix may end to the set where the longer prefix
\* may end.
ReLit(s, P, c) == {p + 1 : p \in {q \in P : q <= Len(s) /\ s[q] = c}}

ReOptSep(s, P) ==
    P \cup {p + 1 : p \in {q \in P : q <= Len(s) /\ s[q] \in PhoneSepChars}}

ReDigits(s, P, n) ==
    {p + n : p \in {q \in P : /\ q + n - 1 <= Len(s)
                              /\ \A i \in q..(q + n - 1) : IsDigit(s[i])}}

\* US_PHONE_REGEX.match(s):
\*   ^(?:\+1[\s.-]?)?(?:\(\d{3}\)|\d{3})[\s.-]?\d{3}[\s.-]?\d{4}$
US_PHONE_REGEX_match(s) ==
    LET P0 == {1}
        P1 == P0 \cup ReOptSep(s, ReLit(s, ReLit(s, P0, "+"), "1"))
        P2 == ReLit(s, ReDigits(s, ReLit(s, P1, "("), 3), ")")
                \cup ReDigits(s, P1, 3)
        P3 == ReDigits(s, ReOptSep(s, P2), 3)
        P4 == ReDigits(s, ReOptSep(s, P3), 4)
    IN  \/ Len(s) + 1 \in P4
        \/ Len(s) \in P4 /\ s[Len(s)] = "\n"

\* str.isdigit(): non-empty and all digits
IsDigitStr(s) == s # <<>> /\ \A i \in 1..Len(s) : IsDigit(s[i])

is_valid_us_phone(value) ==
    IF Falsy(value) THEN FALSE
    ELSE IF /\ StartsWith(value, <<"+", "1">>)
            /\ Len(value) = 12
            /\ IsDigitStr(Slice(value, 3, Len(value)))
         THEN TRUE
         ELSE US_PHONE_REGEX_match(Strip(value))

\* re.sub(r"\D", "", value)
DigitsOf(value) == SelectSeq(value, IsDigit)

\* the first of 11 digits dropped whatever it is
normalize_us_phone_AnyLeading(value) ==
    IF Falsy(value) THEN None
    ELSE LET all == DigitsOf(value)
             digits == IF Len(all) = 11 THEN Tail(all) ELSE all
         IN  IF Len(digits) # 10 THEN None ELSE <<"+", "1">> \o digits

normalize_us_phone(value) ==
    IF Falsy(value) THEN None
    ELSE LET all == DigitsOf(value)
             digits == IF Len(all) = 11 /\ all[1] = "1" THEN Tail(all) ELSE all
         IN  IF Len(digits) # 10 THEN None
             ELSE LET formatted == <<"+", "1">> \o digits
                  IN  IF is_valid_us_phone(formatted) THEN formatted ELSE None

\* the validators are not running
PhoneIdle ==
    /\ v_pc = "idle"
    /\ raw = <<>>
    /\ phone = None
    /\ phone2 = None

(***************************************************************************)
(* validators.py: the email pattern                                        *)
(***************************************************************************)
\* [A-Za-z0-9._%+-], the local part
EmailLocalChars == LetterChars \cup DigitChars \cup {".", "_", "%", "+", "-"}

\* [A-Za-z0-9.-], the domain
EmailDomainChars == LetterChars \cup DigitChars \cup {".", "-"}

IsWordAt(s, i) == i >= 1 /\ i <= Len(s) /\ s[i] \in WordChars

\* \b before position i
WordBoundary(s, i) == IsWordAt(s, i - 1) # IsWordAt(s, i)

\* the position after the longest run of characters of class C from i on
RunEnd(s, i, C) ==
    LET stop == {j \in i..Len(s) : s[j] \notin C}
    IN  IF stop = {} THEN Len(s) + 1
        ELSE CHOOSE j \in stop : \A k \in stop : j <= k

\* Where a match of \.[A-Za-z]{2,}\b that starts at the dot s[p] ends (the
\* position after it), 0 when there is none: the letters are taken greedily
\* and a shorter run would end inside a word.
TldEnd(s, p) ==
    LET e == RunEnd(s, p + 1, LetterChars)
    IN  IF e - (p + 1) >= 2 /\ WordBoundary(s, e) THEN e ELSE 0

\* EMAIL_REGEX matched at position i: the position after the match, 0 when
\* there is none.
\*   \b[A-Za-z0-9._%+-]+@[A-Za-z0-9.-]+\.[A-Za-z]{2,}\b
\* The local part is the whole run before the "@"; the domain is taken
\* greedily, so the last dot of its run that a top-level domain follows wins.
EmailMatchEnd(s, i) ==
    LET at == RunEnd(s, i, EmailLocalChars)
        e  == RunEnd(s, at + 1, EmailDomainChars)
        dots == {p \in (at + 2)..(e - 1) : s[p] = "." /\ TldEnd(s, p) # 0}
    IN  IF /\ i <= Len(s)
           /\ WordBoundary(s, i)
           /\ at > i
           /\ at <= Len(s)
           /\ s[at] = "@"
           /\ dots # {}
        THEN TldEnd(s, CHOOSE p \in dots : \A q \in dots : q <= p)
        ELSE 0

\* EMAIL_REGEX.findall(text): the matches from left to right, not overlapping
RECURSIVE EmailFindAllFrom(_, _)
EmailFindAllFrom(s, i) ==
    IF i > Len(s) THEN <<>>
    ELSE LET e == EmailMatchEnd(s, i)
         IN  (IF e = 0 THEN <<>> ELSE <<SubSeq(s, i, e - 1)>>)
                \o EmailFindAllFrom(s, IF e = 0 THEN i + 1 ELSE e)

EMAIL_REGEX_findall(text) == EmailFindAllFrom(text, 1)

\* EMAIL_REGEX.fullmatch(s): some way of matching takes the whole of s
EMAIL_REGEX_fullmatch(s) ==
    LET at == RunEnd(s, 1, EmailLocalChars)
        e  == RunEnd(s, at + 1, EmailDomainChars)
    IN  /\ s # <<>>
        /\ WordBoundary(s, 1)
        /\ at > 1
        /\ at <= Len(s)
        /\ s[at] = "@"
        /\ \E p \in (at + 2)..(e - 1) :
              s[p] = "." /\ TldEnd(s, p) = Len(s) + 1

ImageSuffixes == {<<".", "p", "n", "g">>, <<".", "j", "p", "g">>, <<".", "j",
        "p", "e", "g">>, <<".", "s", "v", "g">>}

\* the first element of the list that is no image file name, lower-cased
RECURSIVE FirstNotImage(_)
FirstNotImage(matches) ==
    IF matches = <<>> THEN None
    ELSE LET email_lower == Lower(Head(matches))
         IN  IF \E suffix \in ImageSuffixes : EndsWith(email_lower, suffix)
             THEN FirstNotImage(Tail(matches))
             ELSE email_lower

extract_first_valid_email(text) ==
    IF Falsy(text) THEN None ELSE FirstNotImage(EMAIL_REGEX_findall(text))

\* every value accepted
is_valid_email_Always(email) == TRUE

is_valid_email(email) ==
    ~Falsy(email) /\ EMAIL_REGEX_fullmatch(Strip(email))

(***************************************************************************)
(* urllib.parse, for the URLs the crawler meets                            *)
(***************************************************************************)
SchemeChars == LetterChars \cup DigitChars \cup {"+", "-", "."}

\* the index of the ":" that ends the scheme of url, 0 when it has none
SchemeColon(url) ==
    LET colons == {i \in 1..Len(url) : url[i] = ":"}
        c == CHOOSE i \in colons : \A j \in colons : i <= j
    IN  IF /\ colons # {}
           /\ c > 1
           /\ url[1] \in LetterChars
           /\ \A i \in 1..(c - 1) : url[i] \in SchemeChars
        THEN c ELSE 0

\* what follows "scheme:" (the whole of url when it has no scheme)
AfterScheme(url) == Slice(url, SchemeColon(url) + 1, Len(url))

\* the position of the first "/", "?" or "#" of s from i on, Len(s) + 1
\* when there is none
AuthorityEnd(s, i) ==
    LET stop == {j \in i..Len(s) : s[j] \in {"/", "?", "#"}}
    IN  IF stop = {} THEN Len(s) + 1
        ELSE CHOOSE j \in stop : \A k \in stop : j <= k

\* urlparse(url).netloc: after "//", up to the next "/", "?" or "#"
UrlNetloc(url) ==
    LET rest == AfterScheme(url)
    IN  IF StartsWith(rest, <<"/", "/">>)
        THEN Slice(rest, 3, AuthorityEnd(rest, 3) - 1)
        ELSE <<>>

\* urlparse(url).path: after the netloc, up to "?" or "#"
UrlPath(url) ==
    LET rest == AfterScheme(url)
        from == IF StartsWith(rest, <<"/", "/">>) THEN AuthorityEnd(rest, 3) ELSE 1
        stop == {i \in from..Len(rest) : rest[i] \in {"?", "#"}}
        to   == IF stop = {} THEN Len(rest)
                ELSE (CHOOSE i \in stop : \A j \in stop : i <= j) - 1
    IN  Slice(rest, from, to)

\* urljoin(base, href) for an href that has a scheme, starts with "//" or
\* "/", or is a path relative to the directory of base
urljoin(base, href) ==
    LET scheme == Slice(base, 1, SchemeColon(base))
        origin == scheme \o <<"/", "/">> \o UrlNetloc(base)
        path == UrlPath(base)
        slashes == {i \in 1..Len(path) : path[i] = "/"}
        dir == IF slashes = {} THEN <<"/">>
               ELSE SubSeq(path, 1,
                       CHOOSE i \in slashes : \A j \in slashes : j <= i)
    IN  IF SchemeColon(href) # 0 THEN href
        ELSE IF StartsWith(href, <<"/", "/">>) THEN scheme \o href
        ELSE IF StartsWith(href, <<"/">>) THEN origin \o href
        ELSE origin \o dir \o href

(***************************************************************************)
(* email_finder.py                                                         *)
(***************************************************************************)
\* WebsiteEmailFinder(max_pages=6), the default the scraper runs with
DefaultMaxPages == 6

CONTACT_KEYWORDS == {<<"c", "o", "n", "t", "a", "c", "t">>, <<"i", "m", "p",
        "r", "e", "s", "s", "u", "m">>, <<"a", "b", "o", "u", "t">>, <<"s",
        "u", "p", "p", "o", "r", "t">>}

\* _normalize_url: the trimmed URL, "https://" put before it when it has
\* neither "http://" nor "https://" in front; None when nothing is left
_normalize_url(url) ==
    LET candidate == Strip(url)
    IN  IF candidate = <<>> THEN None
        ELSE IF \/ StartsWith(candidate, <<"h", "t", "t", "p", ":", "/", "/">>)
                \/ StartsWith(candidate, <<"h", "t", "t", "p", "s", ":", "/",
                        "/">>)
             THEN candidate
             ELSE <<"h", "t", "t", "p", "s", ":", "/", "/">> \o candidate

\* A page is its text and its anchors, an anchor an href and a visible text;
\* the server may write the "@" of an href as the character reference "&#64;"
\* (entity), which the HTML parser turns back into "@".
RECURSIVE HtmlEscape(_)
HtmlEscape(s) ==
    IF s = <<>> THEN <<>>
    ELSE (IF Head(s) = "@" THEN <<"&", "#", "6", "4", ";">> ELSE <<Head(s)>>)
            \o HtmlEscape(Tail(s))

\* The HTML of a page, as the server sends it.
RenderAnchor(a) ==
    <<"<", "a", " ", "h", "r", "e", "f", "=", "\"">>
        \o (IF a.entity THEN HtmlEscape(a.href) ELSE a.href)
        \o <<"\"", ">">> \o a.text \o <<"<", "/", "a", ">">>

RECURSIVE RenderAnchors(_)
RenderAnchors(links) ==
    IF links = <<>> THEN <<>>
    ELSE RenderAnchor(Head(links)) \o RenderAnchors(Tail(links))

Html(page) == page.text \o RenderAnchors(page.links)

\* the page with no body
EmptyPage == [text |-> <<>>, links |-> <<>>]

\* the page a site serves at url; pages it does not have are not found
PageAt(web, url) == IF url \in DOMAIN web THEN web[url] ELSE EmptyPage

\* the status of the response not looked at
_fetch_html_IgnoreStatus(web, url, ok) ==
    IF url \in DOMAIN web THEN Html(web[url]) ELSE None

\* _fetch_html: resp.text, or None when the request fails or the status is
\* 400 or more (ok = FALSE)
_fetch_html(web, url, ok) ==
    IF ok /\ url \in DOMAIN web THEN Html(web[url]) ELSE None

\* href.split(":", 1)[-1].split("?")[0].strip().lower()
MailtoAddress(href) ==
    LET colons == {i \in 1..Len(href) : href[i] = ":"}
        after == IF colons = {} THEN href
                 ELSE Slice(href,
                         (CHOOSE i \in colons : \A j \in colons : i <= j) + 1,
                            Len(href))
        marks == {i \in 1..Len(after) : after[i] = "?"}
        before == IF marks = {} THEN after
                  ELSE Slice(after, 1,
                          (CHOOSE i \in marks : \A j \in marks : i <= j) - 1)
    IN  Lower(Strip(before))

\* the test of line 79 passes for every link
HasContactKeyword_Always(path, anchor_text) == TRUE

\* line 78-79: any(keyword in f"{parsed.path} {anchor_text}".lower())
HasContactKeyword(path, anchor_text) ==
    LET target == Lower(path \o <<" ">> \o anchor_text)
    IN  \E keyword \in CONTACT_KEYWORDS : Contains(target, keyword)

\* the same-origin test dropped
SameNetloc_Always(next_url, host) == TRUE

\* line 74: parsed.netloc != netloc
SameNetloc(next_url, host) == UrlNetloc(next_url) = host

\* mailto: links treated like any other link
RECURSIVE ScanLinks_IgnoreMailto(_, _, _, _)
ScanLinks_IgnoreMailto(url, host, links, appended) ==
    IF links = <<>> THEN [mail |-> None, appended |-> appended]
    ELSE LET href == Strip(Head(links).href)
             next_url == urljoin(url, href)
             follow == /\ href # <<>>
                       /\ UrlNetloc(next_url) = host
                       /\ \E keyword \in CONTACT_KEYWORDS :
                             Contains(Lower(UrlPath(next_url) \o <<" ">>
                                               \o Strip(Head(links).text)),
                                      keyword)
         IN  ScanLinks_IgnoreMailto(url, host, Tail(links),
                 IF follow THEN Append(appended, next_url) ELSE appended)

\* Lines 62-80, the loop over the anchors of the page fetched from url: the
\* address of the first valid mailto: link (mail), None when the loop ends
\* without one, and the URLs appended to the queue until then.
RECURSIVE ScanLinks(_, _, _, _)
ScanLinks(url, host, links, appended) ==
    IF links = <<>> THEN [mail |-> None, appended |-> appended]
    ELSE LET link == Head(links)
             href == Strip(link.href)
             mail == MailtoAddress(href)
             next_url == urljoin(url, href)
             anchor_text == Lower(Strip(link.text))
             follow == /\ href # <<>>
                       /\ SameNetloc(next_url, host)
                       /\ HasContactKeyword(UrlPath(next_url), anchor_text)
         IN  IF /\ href # <<>>
                /\ StartsWith(Lower(href), <<"m", "a", "i", "l", "t", "o", ":">>)
                /\ is_valid_email(mail)
             THEN [mail |-> mail, appended |-> appended]
             ELSE ScanLinks(url, host, Tail(links),
                            IF follow THEN Append(appended, next_url) ELSE appended)

\* no URL taken for visited
AlreadyVisited_Never(url, seen) == FALSE

\* line 48: url in visited
AlreadyVisited(url, seen) == url \in seen

\* the counter of fetched pages, as line 56 advances it
CountPage(pages) == pages + 1

\* The state of _crawl_for_email between two rounds of its loop: the locals
\* visited, queue and pages_visited, whether it has returned, and what.
CrawlBegin(base_url) ==
    [visited |-> {}, queue |-> <<base_url>>, pages_visited |-> 0,
     returned |-> FALSE, result |-> None]

\* the loop going on whatever the counter is
CrawlGoesOn_NoBudget(st, budget) == ~st.returned /\ st.queue # <<>>

\* line 46: while queue and pages_visited < self.max_pages
CrawlGoesOn(st, budget) ==
    ~st.returned /\ st.queue # <<>> /\ st.pages_visited < budget

\* lines 57-80: the page was fetched and counted; email is what the scan of
\* its text found, scan the outcome of the loop over its anchors
AfterScan(counted, email, scan) ==
    IF ~Falsy(email) /\ is_valid_email(email)
    THEN [counted EXCEPT !.returned = TRUE, !.result = email]
    ELSE IF scan.mail # None
         THEN [counted EXCEPT !.returned = TRUE, !.result = scan.mail]
         ELSE [counted EXCEPT !.queue = counted.queue \o scan.appended]

\* lines 52-80: url was taken from the queue and added to visited (seen),
\* and the request for it returned html, whose anchors are links
AfterFetch(seen, url, host, html, links) ==
    IF Falsy(html) THEN seen
    ELSE AfterScan([seen EXCEPT !.pages_visited = CountPage(seen.pages_visited)],
                   extract_first_valid_email(html),
                   ScanLinks(url, host, links, <<>>))

\* Lines 47-80, one round of the loop; ok tells whether the request of this
\* round, if it makes one, is answered with a status below 400.
CrawlRound(web, host, st, ok) ==
    IF AlreadyVisited(Head(st.queue), st.visited)
    THEN [st EXCEPT !.queue = Tail(st.queue)]
    ELSE AfterFetch([st EXCEPT !.queue = Tail(st.queue),
                              !.visited = st.visited \cup {Head(st.queue)}],
                    Head(st.queue), host,
                    _fetch_html(web, Head(st.queue), ok),
                    PageAt(web, Head(st.queue)).links)

(***************************************************************************)
(* The web the crawler is run on                                           *)
(***************************************************************************)
\* "https://x.co", the site of the business
SeedUrl == <<"h", "t", "t", "p", "s", ":", "/", "/", "x", ".", "c", "o">>

\* "https://x.co/contact"
ContactUrl == <<"h", "t", "t", "p", "s", ":", "/", "/", "x", ".", "c", "o",
        "/", "c", "o", "n", "t", "a", "c", "t">>

\* "https://x.co/blog"
BlogUrl == <<"h", "t", "t", "p", "s", ":", "/", "/", "x", ".", "c", "o", "/",
        "b", "l", "o", "g">>

\* "https://y.co/contact", a page of another site
ForeignUrl == <<"h", "t", "t", "p", "s", ":", "/", "/", "y", ".", "c", "o",
        "/", "c", "o", "n", "t", "a", "c", "t">>

\* <a href="/contact">Us</a>: the keyword is in the path
LinkContact == [href |-> <<"/", "c", "o", "n", "t", "a", "c", "t">>,
        text |-> <<"U", "s">>,
        entity |-> FALSE]

\* <a href="/blog"> About </a>: the keyword is in the text only
LinkBlogAbout == [href |-> <<"/", "b", "l", "o", "g">>, text |-> <<" ", "A",
        "b", "o", "u", "t", " ">>,
        entity |-> FALSE]

\* <a href="/blog">News</a>: no keyword
LinkBlogNews == [href |-> <<"/", "b", "l", "o", "g">>, text |-> <<"N", "e",
        "w", "s">>,
        entity |-> FALSE]

\* <a href="https://y.co/contact">Contact</a>: keywords, but another site
LinkForeign == [href |-> <<"h", "t", "t", "p", "s", ":", "/", "/", "y", ".",
        "c", "o", "/", "c", "o", "n", "t", "a", "c", "t">>, text |-> <<"C",
        "o", "n", "t", "a", "c", "t">>,
        entity |-> FALSE]

\* <a href="https://x.co">Support</a>: back to the seed page
LinkHome == [href |-> <<"h", "t", "t", "p", "s", ":", "/", "/", "x", ".", "c",
        "o">>, text |-> <<"S", "u", "p", "p", "o", "r", "t">>,
        entity |-> FALSE]

\* <a href="Mailto:I@x.co?s">Mail</a>: a valid address before a query
LinkMailto == [href |-> <<"M", "a", "i", "l", "t", "o", ":", "I", "@", "x",
        ".", "c", "o", "?", "s">>, text |-> <<"M", "a", "i", "l">>,
        entity |-> FALSE]

\* <a href="mailto:contact">Mail</a>: no valid address
LinkMailtoBad == [href |-> <<"m", "a", "i", "l", "t", "o", ":", "c", "o", "n",
        "t", "a", "c", "t">>, text |-> <<"M", "a", "i", "l">>,
        entity |-> FALSE]

\* LinkMailto, sent as <a href="Mailto:I&#64;x.co?s">Mail</a>
LinkMailtoEntity == [LinkMailto EXCEPT !.entity = TRUE]

\* <a href="mailto:a@2x.png">Logo</a>: an address that ends like an image
LinkMailtoImage == [href |-> <<"m", "a", "i", "l", "t", "o", ":", "a", "@",
        "2", "x", ".", "p", "n", "g">>, text |-> <<"L", "o", "g", "o">>,
        entity |-> FALSE]

AnchorPool == {LinkContact, LinkBlogAbout, LinkBlogNews, LinkForeign, LinkHome,
               LinkMailto, LinkMailtoEntity, LinkMailtoBad, LinkMailtoImage}

\* "i@x.co", the address of LinkMailto
MailtoEmail == <<"i", "@", "x", ".", "c", "o">>

\* page texts: none, "m@x.co", and the image file name "a@2x.png"
TextPool == {<<>>, <<"m", "@", "x", ".", "c", "o">>, <<"a", "@", "2", "x", ".",
        "p", "n", "g">>}

\* most anchors on the seed page
MaxLinks == 2

\* largest page budget (max_pages) a finder is constructed with
MaxBudget == 2

LinkLists == UNION {[1..n -> AnchorPool] : n \in 0..MaxLinks}

SeedPages == {[text |-> t, links |-> l] : t \in TextPool, l \in LinkLists}

\* what the site serves below the seed page
RestPool ==
    {(ContactUrl :> [text |-> <<"m", "@", "x", ".", "c", "o">>, links |-> <<>>])
        @@ (BlogUrl :> EmptyPage),
     (ContactUrl :> EmptyPage)
        @@ (BlogUrl :> [text |-> <<>>, links |-> <<LinkContact, LinkHome>>]),
     (ContactUrl :> [text |-> <<>>, links |-> <<LinkBlogAbout, LinkContact>>])
        @@ (BlogUrl :> [text |-> <<>>, links |-> <<LinkMailto>>])}

\* the page of the other site
ForeignPage == [text |-> <<"f", "@", "y", ".", "c", "o">>, links |-> <<>>]

Sites ==
    {(SeedUrl :> seed) @@ rest @@ (ForeignUrl :> ForeignPage) :
        seed \in SeedPages, rest \in RestPool}

\* the website field of a place: absent, blank, or "x.co " to be normalized
Websites == {None, <<" ">>, <<"x", ".", "c", "o", " ">>}

Range(seq) == {seq[i] : i \in 1..Len(seq)}

\* no call of find_email is running
CrawlIdle ==
    /\ k_pc = "idle"
    /\ website_url = None
    /\ site = <<>>
    /\ max_pages = DefaultMaxPages
    /\ netloc = <<>>
    /\ visited = {}
    /\ queue = <<>>
    /\ pages_visited = 0
    /\ email_result = None
    /\ fetch_log = <<>>
    /\ enqueued = {}
    /\ skipped = {}

\* the locals of _crawl_for_email as one value
CrawlState ==
    [visited |-> visited, queue |-> queue, pages_visited |-> pages_visited,
     returned |-> FALSE, result |-> None]

(***************************************************************************)
(* maps_scraper.py: _collect_place_urls                                    *)
(***************************************************************************)
\* range(120): the hard cap on collection rounds
RoundCap == 120

\* stagnant_rounds >= 7 ends the loop
StagnationLimit == 7

\* number of locations the feed of the search surface holds
MaxPlaces == 17

\* a max_items no feed can fill
MaxItems == 18

\* largest of the small max_items, which the feed can fill
MaxSmallItems == 3

\* most links the surface adds to what it has rendered, per round
MaxNewPerRound == 2

\* volatile query parameters the surface appends to a link: they change
\* from one rendering to the next
LinkParams == <<"hl=en", "entry=ttu">>

LinkParam(r) == LinkParams[(r % Len(LinkParams)) + 1]

Min(a, b) == IF a <= b THEN a ELSE b

Max(a, b) == IF a >= b THEN a ELSE b

\* An href is a sequence of its parts, "&" being a part of its own: the link
\* of the i-th location of the feed, carrying a volatile parameter
PlaceHref(i, param) == <<"/maps/place/", ToString(i), "&", param>>

\* a rendered card that links to no location
OtherHref == <<"/maps/search/", "nearby", "&", "hl=en">>

\* url.split("&", 1)[0]
_normalize_maps_url(url) ==
    LET amp == {i \in 1..Len(url) : url[i] = "&"}
    IN  IF amp = {} THEN url
        ELSE SubSeq(url, 1, (CHOOSE i \in amp : \A j \in amp : i <= j) - 1)

\* the hrefs of the cards the surface shows in one round: the feed items
\* lo..hi (the cards rendered before are kept, lo = 1, or replaced by the new
\* ones; no item is skipped), possibly a card that is no location and a card
\* without href
RenderedCards(lo, hi, param, other) ==
    {PlaceHref(i, param) : i \in lo..hi}
        \cup (IF other THEN {OtherHref, None} ELSE {})

\* lines 93-96: the set after the cards of one round were read
AddCards(set, cards) ==
    set \cup {_normalize_maps_url(href) :
                 href \in {h \in cards : /\ ~Falsy(h)
                                         /\ \E i \in 1..Len(h) : h[i] = "/maps/place/"}}

\* list(urls): the elements in an order the set's hashing decides
RECURSIVE SetToSeq(_)
SetToSeq(S) ==
    IF S = {} THEN <<>>
    ELSE LET x == CHOOSE y \in S : TRUE IN <<x>> \o SetToSeq(S \ {x})

Rotate(seq, r) ==
    [i \in 1..Len(seq) |-> seq[((i - 1 + r) % Len(seq)) + 1]]

Reverse(seq) == [i \in 1..Len(seq) |-> seq[Len(seq) + 1 - i]]

Arrange(seq, r, rev) == IF rev THEN Reverse(Rotate(seq, r)) ELSE Rotate(seq, r)

\* the slice one too long: lst[:n + 1]
Truncate_OneMore(lst, n) == SubSeq(lst, 1, Min(n + 1, Len(lst)))

\* lst[:n] for n >= 0
Truncate(lst, n) == SubSeq(lst, 1, Min(n, Len(lst)))

\* the slice forgotten: list(urls)
CollectResult_NoSlice(lst, n) == lst

\* line 117: list(urls)[:max_items]
CollectResult(lst, n) == Truncate(lst, n)

\* candidate_selectors of _get_search_input, in the order they are tried
SearchSelectors == <<"input#searchboxinput", "input[aria-label*=Search]",
                     "input[aria-label*=search]", "input[name=q]">>

\* lines 131-138: the first selector whose element becomes visible, or None
_get_search_input(visible) ==
    LET hits == {i \in 1..Len(SearchSelectors) : SearchSelectors[i] \in visible}
    IN  IF hits = {} THEN None
        ELSE <<SearchSelectors[CHOOSE i \in hits : \A j \in hits : i <= j]>>

\* no call of _collect_place_urls is running and none has run
CollectIdle ==
    /\ c_pc = "idle"
    /\ max_items = 0
    /\ urls = {}
    /\ stagnant_rounds = 0
    /\ previous_count = 0
    /\ round = 0
    /\ place_urls = <<>>
    /\ feed_upto = 0
    /\ no_growth_run = 0
    /\ last_growth = 0
    /\ scrolls = 0
    /\ exit_kind = "none"
    /\ submitted = FALSE
    /\ collected = 0

\* the call begins: _collect_place_urls(page, query, n)
CollectEnter(n) ==
    /\ c_pc' = "start"
    /\ max_items' = n
    /\ urls' = {}
    /\ stagnant_rounds' = 0
    /\ previous_count' = 0
    /\ round' = 0
    /\ place_urls' = <<>>
    /\ feed_upto' = 0
    /\ no_growth_run' = 0
    /\ last_growth' = 0
    /\ scrolls' = 0
    /\ exit_kind' = "none"
    /\ submitted' = FALSE
    /\ collected' = 0

\* the query typed although there is no input
SearchOutcome_SubmitAnyway(search_input) ==
    IF Falsy(search_input)
    THEN [pc |-> "returned", exit_kind |-> "no_input", submitted |-> TRUE]
    ELSE [pc |-> "loop", exit_kind |-> "none", submitted |-> TRUE]

\* lines 70-84: return [] when there is no search input, submit the query
\* when there is one
SearchOutcome(search_input) ==
    IF Falsy(search_input)
    THEN [pc |-> "returned", exit_kind |-> "no_input", submitted |-> FALSE]
    ELSE [pc |-> "loop", exit_kind |-> "none", submitted |-> TRUE]

\* lines 68-88: open the surface, find the search input, submit the query
CollectStart ==
    /\ c_pc = "start"
    /\ \E visible \in SUBSET {SearchSelectors[i] : i \in 1..Len(SearchSelectors)} :
          /\ c_pc' = SearchOutcome(_get_search_input(visible)).pc
          /\ exit_kind' = SearchOutcome(_get_search_input(visible)).exit_kind
          /\ submitted' = SearchOutcome(_get_search_input(visible)).submitted
    /\ place_urls' = <<>>
    /\ UNCHANGED <<max_items, urls, stagnant_rounds, previous_count, round,
                   feed_upto, no_growth_run, last_growth, scrolls, collected>>

\* the counter never reset
NextStagnant_NoReset(stagnant, count, previous) ==
    IF count = previous THEN stagnant + 1 ELSE stagnant

\* lines 101-105, the counter after a round that left the set at size count
NextStagnant(stagnant, count, previous) ==
    IF count = previous THEN stagnant + 1 ELSE 0

\* the range never runs out
RangeExhausted_Never(rounds) == FALSE

\* line 90: for _ in range(120) has no round left after rounds rounds
RangeExhausted(rounds) == rounds >= RoundCap

\* lines 90-115: one round of the loop
CollectRound ==
    /\ c_pc = "loop"
    /\ round < RoundCap
    /\ \E n \in 0..MaxNewPerRound, again \in BOOLEAN, other \in BOOLEAN :
          LET param == LinkParam(round)
              hi == Min(feed_upto + n, MaxPlaces)
              lo == IF again THEN 1 ELSE feed_upto + 1
              after == AddCards(urls, RenderedCards(lo, hi, param, other))
              count == Cardinality(after)
              stagnant == NextStagnant(stagnant_rounds, count, previous_count)
          IN  /\ feed_upto' = Max(feed_upto, hi)
              /\ urls' = after
              /\ round' = round + 1
              /\ no_growth_run' = IF after = urls THEN no_growth_run + 1 ELSE 0
              /\ last_growth' = IF after = urls THEN last_growth ELSE round + 1
              /\ IF count >= max_items
                 THEN /\ c_pc' = "exited"
                      /\ exit_kind' = "full"
                      /\ UNCHANGED <<stagnant_rounds, previous_count, scrolls>>
                 ELSE /\ stagnant_rounds' = stagnant
                      /\ previous_count' = count
                      /\ IF stagnant >= StagnationLimit
                         THEN /\ c_pc' = "exited"
                              /\ exit_kind' = "stagnant"
                              /\ UNCHANGED scrolls
                         ELSE /\ scrolls' = scrolls + 1
                              /\ IF RangeExhausted(round + 1)
                                 THEN c_pc' = "exited" /\ exit_kind' = "cap"
                                 ELSE c_pc' = "loop" /\ UNCHANGED exit_kind
    /\ UNCHANGED <<max_items, place_urls, submitted, collected>>

\* line 117: return list(urls)[:max_items]; the locals die with the call
CollectReturn ==
    /\ c_pc = "exited"
    /\ \E r \in 0..Max(0, Cardinality(urls) - 1), rev \in BOOLEAN :
          place_urls' = CollectResult(Arrange(SetToSeq(urls), r, rev),
                  max_items)
    /\ collected' = Cardinality(urls)
    /\ c_pc' = "returned"
    /\ urls' = {}
    /\ stagnant_rounds' = 0
    /\ previous_count' = 0
    /\ no_growth_run' = 0
    /\ last_growth' = 0
    /\ scrolls' = 0
    /\ round' = 0
    /\ feed_upto' = 0
    /\ UNCHANGED <<max_items, exit_kind, submitted>>

\* a Playwright call of lines 68-115 times out: the exception leaves the
\* call, and the locals die with it
CollectRaise ==
    /\ c_pc \in {"start", "loop"}
    /\ c_pc' = "raised"
    /\ exit_kind' = "raised"
    /\ urls' = {}
    /\ stagnant_rounds' = 0
    /\ previous_count' = 0
    /\ no_growth_run' = 0
    /\ last_growth' = 0
    /\ scrolls' = 0
    /\ round' = 0
    /\ feed_upto' = 0
    /\ UNCHANGED <<max_items, place_urls, submitted, collected>>

(***************************************************************************)
(* maps_scraper.py: _parse_place                                           *)
(***************************************************************************)
\* str.split(sep) for a separator of one character
RECURSIVE Split(_, _)
Split(s, sep) ==
    IF \A i \in 1..Len(s) : s[i] # sep THEN <<s>>
    ELSE <<Slice(s, 1, (CHOOSE i \in 1..Len(s) :
                           s[i] = sep /\ \A j \in 1..(i - 1) : s[j] # sep) - 1)>>
         \o Split(Slice(s, (CHOOSE i \in 1..Len(s) :
                           s[i] = sep /\ \A j \in 1..(i - 1) : s[j] # sep) + 1,
                        Len(s)), sep)

\* line 247: [p.strip() for p in address.split(",") if p.strip()]
AddressParts(address) ==
    SelectSeq([i \in 1..Len(Split(address, ",")) |->
                  Strip(Split(address, ",")[i])],
              LAMBDA p : p # <<>>)

\* line 255: re.search(r"\b([A-Z]{2})\b", state_part), "" when nothing matches
StateToken(s) ==
    LET at == {i \in 1..(Len(s) - 1) :
                  /\ s[i] \in UpperChars
                  /\ s[i + 1] \in UpperChars
                  /\ ~IsWordAt(s, i - 1)
                  /\ ~IsWordAt(s, i + 2)}
    IN  IF at = {} THEN <<>>
        ELSE SubSeq(s, CHOOSE i \in at : \A j \in at : i <= j,
                    (CHOOSE i \in at : \A j \in at : i <= j) + 1)

\* line 264: re.sub(r"\d+", "", city)
StripDigits(s) == SelectSeq(s, LAMBDA c : ~IsDigit(c))

\* lines 259-262: the segment the city is taken from
CitySegment(parts) ==
    IF Len(parts) >= 3 THEN parts[Len(parts) - 1] ELSE parts[Len(parts)]

\* lines 248-265, parts being the segments of the address
CityStateOf(parts) ==
    IF Len(parts) < 2 THEN [city |-> <<>>, state |-> <<>>]
    ELSE [city |-> Strip(StripDigits(CitySegment(parts))),
          state |-> StateToken(parts[Len(parts)])]

_parse_city_state(address) == CityStateOf(AddressParts(address))

\* _parse_city_state is not running
AddressIdle ==
    /\ a_pc = "idle"
    /\ address_in = <<>>
    /\ city_state = [city |-> <<>>, state |-> <<>>]

\* the whitespace at the front of s removed
LStrip(s) ==
    IF \A i \in 1..Len(s) : s[i] \in SpaceChars THEN <<>>
    ELSE Slice(s, CHOOSE i \in 1..Len(s) :
                     s[i] \notin SpaceChars
                         /\ \A j \in 1..(i - 1) : s[j] \in SpaceChars,
               Len(s))

\* re.sub(r"^(p1|p2|...)\s*", "", text), the alternatives tried in order
RECURSIVE SubPrefix(_, _)
SubPrefix(text, prefixes) ==
    IF prefixes = <<>> THEN text
    ELSE IF StartsWith(text, Head(prefixes))
         THEN LStrip(Slice(text, Len(Head(prefixes)) + 1, Len(text)))
         ELSE SubPrefix(text, Tail(prefixes))

\* A place page is what its selectors find: the text of the heading, of the
\* three address elements and of the three phone elements, and the href of
\* the two website anchors; None stands for an element that is not there
\* or whose lookup times out.
\* lines 196-203: _safe_text
_safe_text(element) == IF element = None THEN <<>> ELSE Strip(element)

\* lines 205-215
_extract_address(page) ==
    LET hits == {i \in 1..Len(page.address) :
                    _safe_text(page.address[i]) # <<>>}
    IN  IF hits = {} THEN <<>>
        ELSE Strip(SubPrefix(
                 _safe_text(page.address[CHOOSE i \in hits :
                                            \A j \in hits : i <= j]),
                 <<<<"A", "d", "d", "r", "e", "s", "s", ":">>>>))

\* lines 224-228: the text of one phone element, cleaned
CleanPhone(element) ==
    Strip(SubPrefix(_safe_text(element), <<<<"P", "h", "o", "n", "e", ":">>,
            <<"C", "a", "l", "l">>>>))

\* lines 217-229
_extract_phone(page) ==
    LET hits == {i \in 1..Len(page.phone) : CleanPhone(page.phone[i]) # <<>>}
    IN  IF hits = {} THEN <<>>
        ELSE CleanPhone(page.phone[CHOOSE i \in hits : \A j \in hits : i <= j])

\* urlparse(href).scheme
UrlScheme(url) == Lower(Slice(url, 1, SchemeColon(url) - 1))

\* lines 231-243
_extract_website(page) ==
    LET hits == {i \in 1..Len(page.website) :
                    /\ ~Falsy(page.website[i])
                    /\ UrlScheme(page.website[i]) \in {<<"h", "t", "t", "p">>,
                            <<"h", "t", "t", "p", "s">>}}
    IN  IF hits = {} THEN None
        ELSE page.website[CHOOSE i \in hits : \A j \in hits : i <= j]

\* lines 46-82 of email_finder.py run to their end; down is the set of URLs
\* whose request fails
RECURSIVE CrawlRun(_, _, _, _, _)
CrawlRun(web, host, budget, down, st) ==
    IF CrawlGoesOn(st, budget)
    THEN CrawlRun(web, host, budget, down,
                  CrawlRound(web, host, st, Head(st.queue) \notin down))
    ELSE st.result

\* lines 30-38 of email_finder.py: find_email as one function
find_email(url, web, budget, down) ==
    IF Falsy(url) THEN None
    ELSE IF Falsy(_normalize_url(url)) THEN None
    ELSE CrawlRun(web, UrlNetloc(_normalize_url(url)), budget, down,
                  CrawlBegin(_normalize_url(url)))

\* the region the run keeps, line 182
TargetRegion == <<"C", "A">>

\* an Optional[Lead] is a sequence of at most one Lead, None the empty one
NoLead == <<>>

\* the state not looked at
RegionGate_AnyState(name, org_type, phone_number, email, address, where) ==
    IF Falsy(where.city) THEN NoLead
    ELSE <<[name |-> name, org_type |-> org_type, phone |-> phone_number,
            email |-> email, address |-> address, city |-> where.city,
            state |-> where.state]>>

\* lines 181-193: the city and state gate, and the Lead
RegionGate(name, org_type, phone_number, email, address, where) ==
    IF Falsy(where.city) \/ where.state # TargetRegion THEN NoLead
    ELSE <<[name |-> name, org_type |-> org_type, phone |-> phone_number,
            email |-> email, address |-> address, city |-> where.city,
            state |-> where.state]>>

\* lines 178-181: the gate on the four fields
FieldGate(name, org_type, phone_number, email, address) ==
    IF Falsy(name) \/ Falsy(address) \/ Falsy(phone_number) \/ Falsy(email)
    THEN NoLead
    ELSE RegionGate(name, org_type, phone_number, email, address,
                    _parse_city_state(address))

\* x or ""
OrEmpty(x) == IF Falsy(x) THEN <<>> ELSE x

\* lines 167-193; loads tells whether page.goto comes back (it raises
\* otherwise, and scrape goes on with the next place as for None)
_parse_place(page, org_type, web, down, loads) ==
    IF ~loads THEN NoLead
    ELSE FieldGate(_safe_text(page.h1), org_type,
                   normalize_us_phone(OrEmpty(_extract_phone(page))),
                   find_email(_extract_website(page), web, DefaultMaxPages,
                           down),
                   _extract_address(page))

\* the key compared as written
DedupKey_CaseSensitive(lead) ==
    lead.name \o <<"|">> \o lead.phone \o <<"|">> \o lead.address

\* line 57: f"{lead.name.lower()}|{lead.phone}|{lead.address.lower()}"
DedupKey(lead) ==
    Lower(lead.name) \o <<"|">> \o lead.phone \o <<"|">> \o Lower(lead.address)

(***************************************************************************)
(* The places the run meets                                                *)
(***************************************************************************)
\* the site of a business whose address is on its contact page
WebContact ==
    (SeedUrl :> [text |-> <<>>, links |-> <<LinkContact>>])
        @@ (ContactUrl :> [text |-> <<"m", "@", "x", ".", "c", "o">>,
                links |-> <<>>])

\* a site that shows no address
WebSilent == (SeedUrl :> [text |-> <<>>, links |-> <<>>])

PlaceWebs == {WebContact, WebSilent}

\* the URLs whose request fails while a place is parsed
DownSets == {{}, {ContactUrl}}

\* a business in Los Angeles
PlaceAb ==
    [h1 |-> <<" ", "A", "b", " ">>,
     address |-> <<<<"A", "d", "d", "r", "e", "s", "s", ":", " ", "1", " ",
             "X", ",", " ", "L", "a", ",", " ", "C", "A", " ", "9">>, None,
             None>>,
     phone |-> <<<<"P", "h", "o", "n", "e", ":", " ", "(", "4", "1", "5", ")",
             " ", "5", "5", "5", "-", "0", "1", "0", "0">>, None, None>>,
     website |-> <<<<"h", "t", "t", "p", "s", ":", "/", "/", "x", ".", "c",
             "o">>, None>>]

\* the same business written in other letters, found by other selectors
PlaceAB ==
    [h1 |-> <<"A", "B">>,
     address |-> <<None, <<"1", " ", "x", ",", " ", "L", "A", ",", " ", "C",
             "A", " ", "9">>, None>>,
     phone |-> <<<<"C", "a", "l", "l">>, None, <<"+", "1", " ", "4", "1", "5",
             ".", "5", "5", "5", ".", "0", "1", "0", "0">>>>,
     website |-> <<<<"x", ".", "c", "o">>, <<"h", "t", "t", "p", "s", ":", "/",
             "/", "x", ".", "c", "o">>>>]

\* another business
PlaceCd ==
    [h1 |-> <<"C", "d">>,
     address |-> <<<<"2", " ", "Y", ",", " ", "S", "F", ",", " ", "C", "A">>,
             None, None>>,
     phone |-> <<<<"4", "1", "5", "-", "5", "5", "5", "-", "0", "1", "0",
             "1">>, None, None>>,
     website |-> <<<<"h", "t", "t", "p", "s", ":", "/", "/", "x", ".", "c",
             "o">>, None>>]

\* a business in Nevada
PlaceNevada ==
    [h1 |-> <<"E", "f">>,
     address |-> <<<<"3", " ", "Z", ",", " ", "R", "e", "n", "o", ",", " ",
             "N", "V", " ", "8">>, None, None>>,
     phone |-> <<<<"4", "1", "5", "-", "5", "5", "5", "-", "0", "1", "0",
             "2">>, None, None>>,
     website |-> <<<<"h", "t", "t", "p", "s", ":", "/", "/", "x", ".", "c",
             "o">>, None>>]

\* a phone number of seven digits
PlaceShortPhone ==
    [h1 |-> <<"G", "h">>,
     address |-> <<<<"4", " ", "W", ",", " ", "S", "F", ",", " ", "C", "A">>,
             None, None>>,
     phone |-> <<<<"5", "5", "5", "-", "0", "1", "0", "3">>, None, None>>,
     website |-> <<<<"h", "t", "t", "p", "s", ":", "/", "/", "x", ".", "c",
             "o">>, None>>]

\* no website
PlaceNoSite ==
    [h1 |-> <<"I", "j">>,
     address |-> <<<<"5", " ", "V", ",", " ", "S", "F", ",", " ", "C", "A">>,
             None, None>>,
     phone |-> <<<<"4", "1", "5", "-", "5", "5", "5", "-", "0", "1", "0",
             "4">>, None, None>>,
     website |-> <<None, None>>]

\* no heading
PlaceNoName ==
    [h1 |-> None,
     address |-> <<<<"6", " ", "U", ",", " ", "S", "F", ",", " ", "C", "A">>,
             None, None>>,
     phone |-> <<<<"4", "1", "5", "-", "5", "5", "5", "-", "0", "1", "0",
             "5">>, None, None>>,
     website |-> <<<<"h", "t", "t", "p", "s", ":", "/", "/", "x", ".", "c",
             "o">>, None>>]

\* no address element
PlaceNoAddress ==
    [h1 |-> <<"K", "l">>,
     address |-> <<None, None, None>>,
     phone |-> <<<<"4", "1", "5", "-", "5", "5", "5", "-", "0", "1", "0",
             "6">>, None, None>>,
     website |-> <<<<"h", "t", "t", "p", "s", ":", "/", "/", "x", ".", "c",
             "o">>, None>>]

\* the segment of the city holds digits only
PlaceNoCity ==
    [h1 |-> <<"M", "n">>,
     address |-> <<<<"7", " ", "T", ",", " ", "9", ",", " ", "C", "A">>, None,
             None>>,
     phone |-> <<<<"4", "1", "5", "-", "5", "5", "5", "-", "0", "1", "0",
             "7">>, None, None>>,
     website |-> <<<<"h", "t", "t", "p", "s", ":", "/", "/", "x", ".", "c",
             "o">>, None>>]

\* an address of two segments
PlaceTwoSegments ==
    [h1 |-> <<"O", "p">>,
     address |-> <<None, None, <<"A", "d", "d", "r", "e", "s", "s", ":", "N",
             "a", "p", "a", ",", " ", "C", "A", " ", "9">>>>,
     phone |-> <<<<"4", "1", "5", "-", "5", "5", "5", "-", "0", "1", "0",
             "8">>, None, None>>,
     website |-> <<<<"h", "t", "t", "p", "s", ":", "/", "/", "x", ".", "c",
             "o">>, None>>]

PlacePages == {PlaceAb, PlaceAB, PlaceCd, PlaceNevada, PlaceShortPhone,
               PlaceNoSite, PlaceNoName, PlaceNoAddress, PlaceNoCity,
               PlaceTwoSegments}

(***************************************************************************)
(* main.py and maps_scraper.py: the scrape run                             *)
(***************************************************************************)
\* the largest --total-leads
MaxTotalLeads == 3

\* lines 41-56 of main.py
build_targets(total) ==
    <<[query |-> "Churches in California", org_type |-> "Church",
       max_items |-> total \div 2],
      [query |-> "Hospitals in California", org_type |-> "Hospital",
       max_items |-> total - (total \div 2)]>>

\* no scrape is running
ScrapeIdle ==
    /\ s_pc = "idle"
    /\ targets = <<>>
    /\ t_idx = 0
    /\ p_idx = 0
    /\ all_leads = <<>>
    /\ seen_keys = {}
    /\ lead_target = <<>>
    /\ last_dup = <<>>
    /\ no_input_targets = {}

\* lines 42-44: the next target, and the call of _collect_place_urls for it
ScrapeTarget ==
    /\ s_pc = "targets"
    /\ t_idx < Len(targets)
    /\ t_idx' = t_idx + 1
    /\ p_idx' = 0
    /\ s_pc' = "collect"
    /\ CollectEnter(targets[t_idx + 1].max_items)
    /\ UNCHANGED <<targets, all_leads, seen_keys, lead_target, last_dup,
                   no_input_targets>>

\* lines 44-47: _collect_place_urls has returned, the loop over the places
\* begins
ScrapePlaces ==
    /\ s_pc = "collect"
    /\ c_pc = "returned"
    /\ s_pc' = "places"
    /\ p_idx' = 0
    /\ no_input_targets' = IF exit_kind = "no_input"
                           THEN no_input_targets \cup {t_idx}
                           ELSE no_input_targets
    /\ UNCHANGED <<targets, t_idx, all_leads, seen_keys, lead_target, last_dup>>
    /\ UNCHANGED collect_vars

\* line 44: _collect_place_urls has raised; nothing in scrape catches the
\* exception, so it leaves scrape and nothing is returned
ScrapeAbort ==
    /\ s_pc = "collect"
    /\ c_pc = "raised"
    /\ s_pc' = "aborted"
    /\ UNCHANGED <<targets, t_idx, p_idx, all_leads, seen_keys, lead_target,
                   last_dup, no_input_targets>>
    /\ UNCHANGED collect_vars

\* line 61 put the lead first: all_leads.insert(0, lead)
AppendLead_AtFront(leads, lead) == <<lead>> \o leads

\* line 61: all_leads.append(lead)
AppendLead(leads, lead) == Append(leads, lead)

\* lines 54-61: what scrape does with the value of _parse_place
AfterParse(parsed) ==
    IF parsed = NoLead
    THEN UNCHANGED <<all_leads, seen_keys, lead_target, last_dup>>
    ELSE IF DedupKey(parsed[1]) \in seen_keys
         THEN /\ last_dup' = <<[lead |-> parsed[1], target |-> t_idx]>>
              /\ UNCHANGED <<all_leads, seen_keys, lead_target>>
         ELSE /\ seen_keys' = seen_keys \cup {DedupKey(parsed[1])}
              /\ all_leads' = AppendLead(all_leads, parsed[1])
              /\ lead_target' = Append(lead_target, t_idx)
              /\ UNCHANGED last_dup

\* lines 47-61: one place of the target
ScrapePlace ==
    /\ s_pc = "places"
    /\ p_idx < Len(place_urls)
    /\ \E page \in PlacePages, web \in PlaceWebs, down \in DownSets,
          loads \in BOOLEAN :
          AfterParse(_parse_place(page, targets[t_idx].org_type, web, down,
                                  loads))
    /\ p_idx' = p_idx + 1
    /\ UNCHANGED <<s_pc, targets, t_idx, no_input_targets>>
    /\ UNCHANGED collect_vars

\* line 47: the places of the target are done
ScrapeTargetDone ==
    /\ s_pc = "places"
    /\ p_idx = Len(place_urls)
    /\ s_pc' = "targets"
    /\ UNCHANGED <<targets, t_idx, p_idx, all_leads, seen_keys, lead_target,
                   last_dup, no_input_targets>>
    /\ UNCHANGED collect_vars

\* lines 63-65: the targets are done, scrape returns all_leads
ScrapeReturn ==
    /\ s_pc = "targets"
    /\ t_idx = Len(targets)
    /\ s_pc' = "returned"
    /\ UNCHANGED <<targets, t_idx, p_idx, all_leads, seen_keys, lead_target,
                   last_dup, no_input_targets>>
    /\ UNCHANGED collect_vars

(***************************************************************************)
(* email_finder.py: find_email, step by step                               *)
(***************************************************************************)
\* lines 41-44: _crawl_for_email begins
CrawlEnter(base_url) ==
    /\ k_pc' = "loop"
    /\ visited' = {}
    /\ queue' = <<base_url>>
    /\ pages_visited' = 0
    /\ \E host \in {UrlNetloc(base_url)} : netloc' = host
    /\ enqueued' = {base_url}

\* lines 30-38: find_email normalizes the URL and calls _crawl_for_email
FindEmail ==
    /\ k_pc = "call"
    /\ IF Falsy(website_url) \/ Falsy(_normalize_url(website_url))
       THEN /\ k_pc' = "done"
            /\ UNCHANGED <<netloc, visited, queue, pages_visited, enqueued>>
       ELSE \E normalized \in {_normalize_url(website_url)} :
                CrawlEnter(normalized)
    /\ email_result' = None
    /\ UNCHANGED <<website_url, site, max_pages, fetch_log, skipped>>

\* the variables after a round that left the locals as after
CrawlStepTo(after, url, ok) ==
    /\ visited' = after.visited
    /\ queue' = after.queue
    /\ pages_visited' = after.pages_visited
    /\ email_result' = after.result
    /\ k_pc' = IF after.returned THEN "done" ELSE "loop"
    /\ enqueued' = enqueued \cup Range(after.queue)
    /\ skipped' = IF AlreadyVisited(url, visited) THEN skipped \cup {url}
                  ELSE skipped
    /\ fetch_log' =
          IF ~AlreadyVisited(url, visited)
          THEN Append(fetch_log,
                      [url |-> url, ok |-> ok /\ url \in DOMAIN site,
                       empty |-> Html(PageAt(site, url)) = <<>>])
          ELSE fetch_log

\* lines 46-80: one round of the loop of _crawl_for_email
CrawlStep ==
    /\ k_pc = "loop"
    /\ CrawlGoesOn(CrawlState, max_pages)
    /\ \E ok \in BOOLEAN :
          \E after \in {CrawlRound(site, netloc, CrawlState, ok)} :
              CrawlStepTo(after, Head(queue), ok)
    /\ UNCHANGED <<website_url, site, max_pages, netloc>>

\* line 82: the loop is over, return None
CrawlEnd ==
    /\ k_pc = "loop"
    /\ ~CrawlGoesOn(CrawlState, max_pages)
    /\ k_pc' = "done"
    /\ email_result' = None
    /\ UNCHANGED <<website_url, site, max_pages, netloc, visited, queue,
                   pages_visited, fetch_log, enqueued, skipped>>

(***************************************************************************)
(* Spec: one run of scrape on the targets main.py builds                   *)
(***************************************************************************)
Init ==
    /\ PhoneIdle
    /\ CrawlIdle
    /\ CollectIdle
    /\ AddressIdle
    /\ \E total \in 0..MaxTotalLeads : targets = build_targets(total)
    /\ s_pc = "targets"
    /\ t_idx = 0
    /\ p_idx = 0
    /\ all_leads = <<>>
    /\ seen_keys = {}
    /\ lead_target = <<>>
    /\ last_dup = <<>>
    /\ no_input_targets = {}

Next ==
    \/ ScrapeTarget /\ UNCHANGED <<phone_vars, crawl_vars, address_vars>>
    \/ CollectStart /\ UNCHANGED <<phone_vars, crawl_vars, scrape_vars, address_vars>>
    \/ CollectRound /\ UNCHANGED <<phone_vars, crawl_vars, scrape_vars, address_vars>>
    \/ CollectReturn /\ UNCHANGED <<phone_vars, crawl_vars, scrape_vars, address_vars>>
    \/ CollectRaise /\ UNCHANGED <<phone_vars, crawl_vars, scrape_vars, address_vars>>
    \/ ScrapePlaces /\ UNCHANGED <<phone_vars, crawl_vars, address_vars>>
    \/ ScrapeAbort /\ UNCHANGED <<phone_vars, crawl_vars, address_vars>>
    \/ ScrapePlace /\ UNCHANGED <<phone_vars, crawl_vars, address_vars>>
    \/ ScrapeTargetDone /\ UNCHANGED <<phone_vars, crawl_vars, address_vars>>
    \/ ScrapeReturn /\ UNCHANGED <<phone_vars, crawl_vars, address_vars>>

Spec == Init /\ [][Next]_vars

\* C6: at every point of a run no two Leads of the output have the same
\* lowercase name, the same phone and the same lowercase address, so two
\* accepted records that differ only in letter case give one Lead, also
\* across targets.
C6_NoTwoLeadsWithSameKey ==
    \A i, j \in 1..Len(all_leads) :
        i # j =>
            ~ /\ Lower(all_leads[i].name) = Lower(all_leads[j].name)
              /\ all_leads[i].phone = all_leads[j].phone
              /\ Lower(all_leads[i].address) = Lower(all_leads[j].address)

\* C6: a record of the second target was dropped as the duplicate of the
\* Lead of the first, from which it differs in the case of its letters
C6_Witness ==
    /\ Len(all_leads) = 1
    /\ lead_target = <<1>>
    /\ last_dup # <<>>
    /\ last_dup[1].target = 2
    /\ last_dup[1].lead.name # all_leads[1].name
    /\ last_dup[1].lead.address # all_leads[1].address
    /\ last_dup[1].lead.phone = all_leads[1].phone

\* "+1" and ten digits
IsNormalizedPhone(s) ==
    /\ Len(s) = 12
    /\ s[1] = "+"
    /\ s[2] = "1"
    /\ \A i \in 3..12 : s[i] \in DigitChars

\* C7: every Lead of the output has a name, an address, a phone "+1" and ten
\* digits, an email that fully matches the pattern, a city, and the state
\* "CA"; the city and state are those its address parses to.
C7_LeadsPassTheGates ==
    \A i \in 1..Len(all_leads) :
        /\ all_leads[i].name # <<>>
        /\ all_leads[i].address # <<>>
        /\ IsNormalizedPhone(all_leads[i].phone)
        /\ EMAIL_REGEX_fullmatch(all_leads[i].email)
        /\ all_leads[i].city # <<>>
        /\ all_leads[i].state = <<"C", "A">>
        /\ all_leads[i].city = _parse_city_state(all_leads[i].address).city
        /\ all_leads[i].state = _parse_city_state(all_leads[i].address).state

\* C7: two places of the second target were parsed; one became a Lead, the
\* other was discarded, and not as a duplicate
C7_Witness ==
    /\ s_pc = "places"
    /\ t_idx = 2
    /\ p_idx = 2
    /\ Len(all_leads) = 1
    /\ lead_target = <<2>>
    /\ last_dup = <<>>

\* C8: a failure of a page or element never aborts the run, scrape returns
C8_RunNeverAborted == s_pc # "aborted"

\* C9: when no search input is found the call returns the empty list with
\* no query submitted and no round run; no step taken while that is the
\* call's outcome changes the output or the key set, and once the (empty)
\* loop over the places is over the run is at the next target.
C9_NoInputSkipsTarget ==
    /\ [](exit_kind = "no_input" =>
            /\ place_urls = <<>>
            /\ ~submitted
            /\ round = 0
            /\ scrolls = 0
            /\ collected = 0
            /\ s_pc \in {"collect", "places", "targets", "returned"})
    /\ [][/\ exit_kind' = "no_input" =>
                all_leads' = all_leads /\ seen_keys' = seen_keys
          /\ (exit_kind = "no_input" /\ s_pc = "places") =>
                s_pc' = "targets" /\ t_idx' = t_idx]_vars

\* C9: the first target had no search input, the run went on to the second
\* and took a Lead from it
C9_Witness ==
    /\ 1 \in no_input_targets
    /\ t_idx = 2
    /\ lead_target = <<2>>

(***************************************************************************)
(* SpecAddress: _parse_city_state applied to one address                   *)
(***************************************************************************)
\* the most segments an address is written with
MaxSegments == 3

\* what stands between the commas of an address
SegmentPool == {<<>>, <<" ">>, <<"P", "O", " ", "B", "o", "x", " ", "5">>,
        <<" ", "T", "X">>, <<"C", "A", " ", "9">>, <<"L", "A", " ">>, <<"9">>,
                <<"c", "a">>}

\* str.join: the segments with "," between them
RECURSIVE JoinSegments(_)
JoinSegments(segs) ==
    IF segs = <<>> THEN <<>>
    ELSE IF Len(segs) = 1 THEN Head(segs)
    ELSE Head(segs) \o <<",">> \o JoinSegments(Tail(segs))

Addresses ==
    {JoinSegments(segs) :
        segs \in UNION {[1..n -> SegmentPool] : n \in 0..MaxSegments}}

InitAddress ==
    /\ PhoneIdle
    /\ CollectIdle
    /\ CrawlIdle
    /\ ScrapeIdle
    /\ a_pc = "input"
    /\ address_in \in Addresses
    /\ city_state = [city |-> <<>>, state |-> <<>>]

\* city, state = self._parse_city_state(address)
ParseAddress ==
    /\ a_pc = "input"
    /\ city_state' = _parse_city_state(address_in)
    /\ a_pc' = "parsed"
    /\ UNCHANGED <<address_in, phone_vars, collect_vars, crawl_vars,
            scrape_vars>>

NextAddress == ParseAddress

SpecAddress == InitAddress /\ [][NextAddress]_vars

\* C11: for an address of exactly two non-empty segments the city returned
\* is the first segment, digits stripped and trimmed, and the state is the
\* two-letter uppercase token of the last segment; "PO Box 5, TX" gives the
\* city "PO Box" and the state "TX".
C11_TwoSegmentsCityIsFirst ==
    (a_pc = "parsed" /\ Len(AddressParts(address_in)) = 2) =>
        /\ city_state.city = Strip(StripDigits(AddressParts(address_in)[1]))
        /\ city_state.state = StateToken(AddressParts(address_in)[2])

(***************************************************************************)
(* SpecCollect: one call of _collect_place_urls                            *)
(***************************************************************************)
InitCollect ==
    /\ PhoneIdle
    /\ CrawlIdle
    /\ ScrapeIdle
    /\ AddressIdle
    /\ \E n \in (0..MaxSmallItems) \cup {MaxItems} :
          /\ c_pc = "start"
          /\ max_items = n
    /\ urls = {}
    /\ stagnant_rounds = 0
    /\ previous_count = 0
    /\ round = 0
    /\ place_urls = <<>>
    /\ feed_upto = 0
    /\ no_growth_run = 0
    /\ last_growth = 0
    /\ scrolls = 0
    /\ exit_kind = "none"
    /\ submitted = FALSE
    /\ collected = 0

NextCollect ==
    \/ CollectStart /\ UNCHANGED <<phone_vars, crawl_vars, scrape_vars, address_vars>>
    \/ CollectRound /\ UNCHANGED <<phone_vars, crawl_vars, scrape_vars, address_vars>>
    \/ CollectReturn /\ UNCHANGED <<phone_vars, crawl_vars, scrape_vars, address_vars>>
    \/ CollectRaise /\ UNCHANGED <<phone_vars, crawl_vars, scrape_vars, address_vars>>

SpecCollect == InitCollect /\ [][NextCollect]_vars

\* C1: whatever the surface rendered, the list _collect_place_urls returns
\* has at most max_items entries and no two of them are the same location.
C1_AtMostMaxItemsNoRepeat ==
    c_pc = "returned" =>
        /\ Len(place_urls) <= max_items
        /\ \A i, j \in 1..Len(place_urls) :
              i # j => _normalize_maps_url(place_urls[i])
                          # _normalize_maps_url(place_urls[j])

\* a call that collected more locations than asked for and returned max_items
C1_Witness ==
    /\ c_pc = "returned"
    /\ max_items >= 2
    /\ collected > max_items
    /\ Len(place_urls) = max_items

\* C2, the counter: between rounds, and when the loop ended short of
\* max_items, stagnant_rounds is the number of consecutive latest rounds in
\* which the set did not grow.
C2_CounterIsNoGrowthRun ==
    (c_pc \in {"loop", "exited"} /\ exit_kind # "full") =>
        stagnant_rounds = no_growth_run

\* the loop ended at the 7th consecutive round without growth, which
\* triggered no scroll
EndedByStagnation ==
    /\ round = last_growth + StagnationLimit
    /\ stagnant_rounds = StagnationLimit
    /\ exit_kind = "stagnant"
    /\ scrolls = round - 1

\* the loop ran all its rounds, each triggering a scroll
EndedByCap ==
    /\ round = RoundCap
    /\ exit_kind = "cap"
    /\ stagnant_rounds = RoundCap - last_growth
    /\ stagnant_rounds < StagnationLimit
    /\ scrolls = RoundCap

\* C2 as claimed: a loop that ends with fewer than max_items locations, the
\* last growth of the set being in round last_growth (0: it never grew),
\* ends at round last_growth + 7 by stagnation, without another scroll and
\* not at the cap; and the counter counts the rounds without growth.
C2_EndsSevenRoundsAfterLastGrowth ==
    /\ C2_CounterIsNoGrowthRun
    /\ (c_pc = "exited" /\ Cardinality(urls) < max_items) => EndedByStagnation

\* C2 as amended: that holds when last_growth + 7 <= 120; a set that last
\* grew in round 114 or later takes the loop to the cap, where it ends after
\* round 120 with fewer than 7 stagnant rounds.
C2_EndsByStagnationOrCap ==
    /\ C2_CounterIsNoGrowthRun
    /\ (c_pc = "exited" /\ Cardinality(urls) < max_items) =>
          IF last_growth + StagnationLimit <= RoundCap
          THEN EndedByStagnation
          ELSE EndedByCap

\* a surface that yielded some locations, fewer than max_items, then none
C2_Witness ==
    /\ c_pc = "exited"
    /\ exit_kind = "stagnant"
    /\ last_growth >= 2
    /\ 0 < Cardinality(urls)
    /\ Cardinality(urls) < max_items

\* C12: the loop runs at most 120 rounds whatever the search surface does;
\* a loop whose set keeps growing often enough never to stagnate, without
\* reaching max_items, ends after round 120, and the call returns the
\* locations collected.
C12_AtMostRoundCapRounds ==
    /\ round <= RoundCap
    /\ scrolls <= RoundCap
    /\ c_pc = "loop" => round < RoundCap
    /\ (c_pc = "exited" /\ exit_kind = "cap") =>
          /\ round = RoundCap
          /\ stagnant_rounds < StagnationLimit
          /\ Cardinality(urls) < max_items
    /\ (c_pc = "returned" /\ exit_kind = "cap") =>
          /\ collected < max_items
          /\ Len(place_urls) = collected
          /\ Cardinality(Range(place_urls)) = collected

\* C12: the call returned at the cap with every location the surface had,
\* fewer than max_items
C12_Witness ==
    /\ c_pc = "returned"
    /\ exit_kind = "cap"
    /\ collected >= 17
    /\ Len(place_urls) = collected

(***************************************************************************)
(* SpecCrawl: one call of find_email                                       *)
(***************************************************************************)
CrawlInit(sites) ==
    /\ PhoneIdle
    /\ CollectIdle
    /\ ScrapeIdle
    /\ AddressIdle
    /\ k_pc = "call"
    /\ website_url \in Websites
    /\ site \in sites
    /\ max_pages \in 1..MaxBudget
    /\ netloc = <<>>
    /\ visited = {}
    /\ queue = <<>>
    /\ pages_visited = 0
    /\ email_result = None
    /\ fetch_log = <<>>
    /\ enqueued = {}
    /\ skipped = {}

InitCrawl == CrawlInit(Sites)

NextCrawl ==
    \/ FindEmail /\ UNCHANGED <<phone_vars, collect_vars, scrape_vars, address_vars>>
    \/ CrawlStep /\ UNCHANGED <<phone_vars, collect_vars, scrape_vars, address_vars>>
    \/ CrawlEnd /\ UNCHANGED <<phone_vars, collect_vars, scrape_vars, address_vars>>

SpecCrawl == InitCrawl /\ [][NextCrawl]_vars

\* the requests of the call that were answered with a status below 400
SuccessfulFetches == {i \in 1..Len(fetch_log) : fetch_log[i].ok}

\* C3: in one find_email call with page budget max_pages, the number of
\* successfully fetched pages never exceeds the budget.
C3_FetchedPagesWithinBudget ==
    k_pc \in {"loop", "done"} => Cardinality(SuccessfulFetches) <= max_pages

\* the seed page has an anchor whose href is a mailto: link with an address
\* that passes is_valid_email
SeedHasValidMailto ==
    \E i \in 1..Len(site[SeedUrl].links) :
        /\ StartsWith(Lower(Strip(site[SeedUrl].links[i].href)),
                      <<"m", "a", "i", "l", "t", "o", ":">>)
        /\ is_valid_email(MailtoAddress(Strip(site[SeedUrl].links[i].href)))

\* C4: when the seed page is fetched successfully and has a valid mailto:
\* anchor, find_email returns a valid email and the request for the seed
\* page is the only one of the call, whatever else the page links to.
C4_MailtoOnSeedSingleFetch ==
    (/\ k_pc \in {"loop", "done"}
     /\ fetch_log # <<>>
     /\ fetch_log[1].ok
     /\ SeedHasValidMailto)
        => /\ k_pc = "done"
           /\ Len(fetch_log) = 1
           /\ fetch_log[1].url = SeedUrl
           /\ email_result # None
           /\ is_valid_email(email_result)

\* a seed page without text whose first anchor is a contact link and whose
\* second is the mailto: link (its "@" sent as a character reference, so
\* that only the loop over the anchors can find the address)
C4_Witness ==
    /\ k_pc = "done"
    /\ fetch_log # <<>>
    /\ fetch_log[1].ok
    /\ site[SeedUrl].text = <<>>
    /\ site[SeedUrl].links = <<LinkContact, LinkMailtoEntity>>
    /\ email_result = MailtoEmail
    /\ Len(fetch_log) = 1

\* C5: every URL the call puts into the queue or requests has the netloc of
\* the normalized seed URL.
C5_SameNetlocOnly ==
    k_pc \in {"loop", "done"} =>
        \A u \in enqueued \cup {fetch_log[i].url : i \in 1..Len(fetch_log)} :
            UrlNetloc(u) = UrlNetloc(_normalize_url(website_url))

\* the seed page has the link to the other site, with contact keywords in
\* path and text, and the crawl went on to a second page
C5_Witness ==
    /\ k_pc = "done"
    /\ Len(fetch_log) >= 2
    /\ fetch_log[1].ok
    /\ \E i \in 1..Len(site[SeedUrl].links) : site[SeedUrl].links[i] = LinkForeign

\* this step sent a request, and the request failed
FetchFailedNow ==
    /\ Len(fetch_log') = Len(fetch_log) + 1
    /\ ~fetch_log'[Len(fetch_log')].ok

\* this step sent a request, and the response had a status below 400
FetchSucceededNow ==
    /\ Len(fetch_log') = Len(fetch_log) + 1
    /\ fetch_log'[Len(fetch_log')].ok

\* C13: a round whose request fails leaves the counter of pages as it was
\* and appends nothing to the queue; the URL leaves the queue and enters the
\* visited set, nothing is returned and the loop goes on.
C13_FailedFetchOnlyMarksVisited ==
    [][FetchFailedNow =>
          /\ pages_visited' = pages_visited
          /\ queue' = Tail(queue)
          /\ Head(queue) \notin visited
          /\ visited' = visited \cup {Head(queue)}
          /\ k_pc' = "loop"
          /\ email_result' = None]_vars

\* C13: a request failed and the crawl went on to fetch the next queued URL
C13_Witness ==
    \E i \in 1..(Len(fetch_log) - 1) :
        /\ ~fetch_log[i].ok
        /\ fetch_log[i + 1].ok
        /\ fetch_log[i + 1].url # fetch_log[i].url

\* C14: every round whose request is answered with a status below 400 adds
\* one to the counter of pages, also when the body is empty.
C14_EverySuccessfulFetchCounts ==
    [][FetchSucceededNow => pages_visited' = pages_visited + 1]_vars

\* C15: the queue never holds the same URL twice and never holds a URL of
\* the visited set.
C15_QueueHoldsNoDuplicateNorVisited ==
    k_pc = "loop" =>
        /\ \A i, j \in 1..Len(queue) : i # j => queue[i] # queue[j]
        /\ \A i \in 1..Len(queue) : queue[i] \notin visited

\* C16: no URL is requested twice in one call, whether the request succeeded
\* or failed; a URL is in the visited set from the round of its request on,
\* and a round that takes a visited URL from the queue sends no request.
C16_NoUrlFetchedTwice ==
    /\ [](/\ \A i, j \in 1..Len(fetch_log) :
                i # j => fetch_log[i].url # fetch_log[j].url
          /\ \A i \in 1..Len(fetch_log) : fetch_log[i].url \in visited)
    /\ [][/\ Len(fetch_log') > Len(fetch_log) =>
                /\ fetch_log' = Append(fetch_log, fetch_log'[Len(fetch_log')])
                /\ fetch_log'[Len(fetch_log')].url = Head(queue)
                /\ Head(queue) \notin visited
                /\ Head(queue) \in visited'
          /\ (k_pc = "loop" /\ queue # <<>> /\ Head(queue) \in visited) =>
                /\ fetch_log' = fetch_log
                /\ visited' = visited]_vars

\* C16: a URL whose request failed was queued a second time, taken from the
\* queue again and skipped
C16_Witness ==
    /\ \E i \in 1..Len(fetch_log) :
          ~fetch_log[i].ok /\ fetch_log[i].url \in skipped
    /\ \E i \in 1..Len(fetch_log) : fetch_log[i].ok

\* the anchors that decide how a crawl goes on: links of the host (one of them
\* back to the seed), a link of another host, a mailto that ends the crawl and
\* one that is passed over
LiveAnchorPool == {LinkContact, LinkBlogAbout, LinkForeign, LinkHome,
                   LinkMailto, LinkMailtoBad}

\* the sites whose seed page is built from these anchors
LiveSites ==
    {(SeedUrl :> [text |-> t, links |-> l]) @@ rest @@ (ForeignUrl :> ForeignPage) :
        t \in TextPool,
        l \in UNION {[1..n -> LiveAnchorPool] : n \in 0..MaxLinks},
        rest \in RestPool}

InitCrawlLive == CrawlInit(LiveSites)

\* SpecCrawlLive: find_email runs in one thread and every request comes back
\* (requests.get has a timeout), so a round that can be taken is taken.
SpecCrawlLive == InitCrawlLive /\ [][NextCrawl]_vars /\ WF_vars(NextCrawl)

\* the URLs of the host the page at url links to
LinkTargets(web, host, url) ==
    {urljoin(url, Strip(PageAt(web, url).links[i].href)) :
        i \in {j \in 1..Len(PageAt(web, url).links) :
                  /\ Strip(PageAt(web, url).links[j].href) # <<>>
                  /\ UrlNetloc(urljoin(url, Strip(PageAt(web, url).links[j].href)))
                        = host}}

\* from with the URLs its pages link to
ReachStep(web, host, from) ==
    from \cup UNION {LinkTargets(web, host, url) : url \in from}

\* the URLs of the host that can be reached from the URLs of from by links
RECURSIVE Reach(_, _, _)
Reach(web, host, from) ==
    IF ReachStep(web, host, from) \subseteq from THEN from
    ELSE Reach(web, host, ReachStep(web, host, from))

\* lines 57-70 return an email for the page the site serves at url
PageYields(web, host, url) ==
    AfterFetch(CrawlBegin(url), url, host, Html(PageAt(web, url)),
               PageAt(web, url).links).returned

\* C17: find_email terminates on every site, cycles and failed requests
\* included; it returns None exactly when no page it fetched yields a valid
\* email, the loop having ended on an empty queue or an exhausted budget,
\* which end it without another request; and it sends at most as many
\* requests as there are URLs of the seed's host reachable from the seed.
C17_FindEmailTerminates ==
    /\ <>(k_pc = "done")
    /\ [](fetch_log # <<>> =>
            Len(fetch_log)
                <= Cardinality(Reach(site, netloc, {fetch_log[1].url})))
    /\ [](k_pc = "done" =>
            /\ email_result = None <=>
                  \A i \in SuccessfulFetches :
                      ~PageYields(site, netloc, fetch_log[i].url)
            /\ email_result = None =>
                  queue = <<>> \/ pages_visited >= max_pages)
    /\ [][(k_pc = "loop" /\ (queue = <<>> \/ pages_visited >= max_pages)) =>
              /\ k_pc' = "done"
              /\ email_result' = None
              /\ fetch_log' = fetch_log]_vars

\* C17: on a site whose pages link back to the seed, with a request that
\* failed, the call ended on an empty queue and returned None
C17_Witness ==
    /\ k_pc = "done"
    /\ email_result = None
    /\ queue = <<>>
    /\ SeedUrl \in skipped
    /\ \E i \in 1..Len(fetch_log) : ~fetch_log[i].ok
    /\ pages_visited < max_pages

(***************************************************************************)
(* SpecPhone: normalize_us_phone applied to one raw input                  *)
(***************************************************************************)
\* longest digit string tried
MaxDigits == 12

\* the digits raw inputs are written with: the country code and another one
PhoneDigits == {"1", "2"}

DigitStrings ==
    UNION {[1..n -> PhoneDigits] : n \in 0..MaxDigits}

\* A way of writing a digit string down: a "+" in front or not, the first
\* three digits in parentheses or not, and a separator (or none) after the
\* groups, as in the formats the comment of US_PHONE_REGEX lists.
PhoneFormats ==
    {[plus |-> FALSE, paren |-> FALSE, sep |-> <<>>],
     [plus |-> FALSE, paren |-> FALSE, sep |-> <<"-">>],
     [plus |-> FALSE, paren |-> TRUE,  sep |-> <<" ">>],
     [plus |-> TRUE,  paren |-> FALSE, sep |-> <<>>],
     [plus |-> TRUE,  paren |-> FALSE, sep |-> <<".">>],
     [plus |-> TRUE,  paren |-> TRUE,  sep |-> <<"-">>]}

\* d written in format f: separators go before the last 4 and the last 7
\* digits, the parentheses around the 3 digits before those
WritePhone(d, f) ==
    LET n == Len(d)
        head == Slice(d, 1, n - 10)
        area == Slice(d, IF n > 10 THEN n - 9 ELSE 1, n - 7)
        mid  == Slice(d, IF n > 7 THEN n - 6 ELSE 1, n - 4)
        last == Slice(d, IF n > 4 THEN n - 3 ELSE 1, n)
    IN  (IF f.plus THEN <<"+">> ELSE <<>>)
        \o head
        \o (IF head # <<>> THEN f.sep ELSE <<>>)
        \o (IF f.paren /\ area # <<>> THEN <<"(">> \o area \o <<")">> ELSE area)
        \o (IF area # <<>> THEN f.sep ELSE <<>>)
        \o mid
        \o (IF mid # <<>> THEN f.sep ELSE <<>>)
        \o last

InitPhone ==
    /\ v_pc = "input"
    /\ \E d \in DigitStrings, f \in PhoneFormats : raw = WritePhone(d, f)
    /\ phone = None
    /\ phone2 = None
    /\ CollectIdle
    /\ CrawlIdle
    /\ ScrapeIdle
    /\ AddressIdle

\* phone = normalize_us_phone(raw or "")
Normalize ==
    /\ v_pc = "input"
    /\ phone' = normalize_us_phone(raw)
    /\ v_pc' = "normalized"
    /\ UNCHANGED <<raw, phone2, collect_vars, crawl_vars, scrape_vars,
                   address_vars>>

\* the normalized value normalized again
Renormalize ==
    /\ v_pc = "normalized"
    /\ phone # None
    /\ phone2' = normalize_us_phone(phone)
    /\ v_pc' = "renormalized"
    /\ UNCHANGED <<raw, phone, collect_vars, crawl_vars, scrape_vars,
                   address_vars>>

NextPhone == Normalize \/ Renormalize

SpecPhone == InitPhone /\ [][NextPhone]_vars

\* C10: normalize_us_phone(raw) is "+1" followed by d exactly when the digits
\* of raw are the 10 digits d, or "1" followed by the 10 digits d, and is None
\* for every other digit count; normalizing the result again returns it.
C10_NormalizeByDigits ==
    v_pc # "input" =>
        LET all == SelectSeq(raw, LAMBDA c : c \in DigitChars)
        IN  /\ Len(all) = 10 => phone = <<"+", "1">> \o all
            /\ (Len(all) = 11 /\ all[1] = "1") => phone = <<"+">> \o all
            /\ (Len(all) # 10 /\ ~(Len(all) = 11 /\ all[1] = "1")) => phone = None
            /\ v_pc = "renormalized" => phone2 = phone

\* "+1 (212) 121-2121"-like input: a country code, separators, normalized twice
C10_Witness ==
    /\ v_pc = "renormalized"
    /\ Len(raw) > 12
    /\ Len(SelectSeq(raw, LAMBDA c : c \in DigitChars)) = 11
    /\ phone # None
    /\ phone2 = phone

\* C18: the output of scrape is append-only and in first-seen order. A step
\* changes all_leads only by putting one lead with a new key after the leads
\* already there, and the key set only by adding that key; a lead whose key
\* was seen before changes neither; the targets the leads were first seen in
\* are in non-decreasing order along the output.
C18_OutputAppendOnlyFirstSeen ==
    /\ [][/\ Len(all_leads') \in {Len(all_leads), Len(all_leads) + 1}
          /\ SubSeq(all_leads', 1, Len(all_leads)) = all_leads
          /\ seen_keys \subseteq seen_keys'
          /\ all_leads' # all_leads =>
                /\ DedupKey(all_leads'[Len(all_leads')]) \notin seen_keys
                /\ seen_keys' = seen_keys \cup {DedupKey(all_leads'[Len(all_leads')])}
          /\ all_leads' = all_leads => seen_keys' = seen_keys
          /\ last_dup' # last_dup =>
                /\ DedupKey(last_dup'[1].lead) \in seen_keys
                /\ all_leads' = all_leads
                /\ seen_keys' = seen_keys]_vars
    /\ [](/\ Len(lead_target) = Len(all_leads)
          /\ \A i, j \in 1..Len(lead_target) :
                i < j => lead_target[i] <= lead_target[j])

\* C18: the output holds a lead of the first target and one of the second,
\* and the second target also produced a lead with the key of a lead of the
\* first target
C18_Witness ==
    /\ Len(all_leads) >= 2
    /\ lead_target[1] = 1
    /\ lead_target[Len(lead_target)] = 2
    /\ last_dup # <<>>
    /\ last_dup[1].target = 2
    /\ \E i \in 1..Len(all_leads) :
          lead_target[i] = 1 /\ DedupKey(all_leads[i]) = DedupKey(last_dup[1].lead)

\* the leads of the output first seen in target t
LeadsOfTarget(t) == {i \in 1..Len(lead_target) : lead_target[i] = t}

\* C19: at every moment of a run the output holds at most max_items leads of
\* each target, and so at most the sum of max_items over the targets.
C19_LeadCountsWithinMaxItems ==
    /\ \A t \in 1..Len(targets) :
          Cardinality(LeadsOfTarget(t)) <= targets[t].max_items
    /\ Len(all_leads) <= targets[1].max_items + targets[2].max_items
    /\ s_pc = "places" => Len(place_urls) <= targets[t_idx].max_items

\* C19: scrape has returned as many leads as the targets allow, the surface
\* having shown more places than max_items for the second target
C19_Witness ==
    /\ s_pc = "returned"
    /\ Len(all_leads) = targets[1].max_items + targets[2].max_items
    /\ Cardinality(LeadsOfTarget(2)) = targets[2].max_items
    /\ targets[2].max_items >= 2
    /\ collected > targets[2].max_items

\* line 48 of validators.py: the address ends like an image file name
EndsLikeImage(email) ==
    \E suffix \in ImageSuffixes : EndsWith(Lower(email), suffix)

\* find_email has returned an address
EmailReturned == k_pc = "done" /\ email_result # None /\ fetch_log # <<>>

\* what the scan of the text of the page requested last finds
LastTextScan ==
    extract_first_valid_email(Html(PageAt(site, fetch_log[Len(fetch_log)].url)))

\* the addresses of the mailto anchors of the page requested last
LastMailtoAddresses ==
    {MailtoAddress(Strip(PageAt(site, fetch_log[Len(fetch_log)].url).links[i].href)) :
        i \in 1..Len(PageAt(site, fetch_log[Len(fetch_log)].url).links)}

\* C20 as stated: every address find_email returns passes is_valid_email and
\* does not end in an image extension, wherever it was found.
C20_ResultValidAndNeverAnImageName ==
    EmailReturned =>
        /\ ~Falsy(email_result)
        /\ EMAIL_REGEX_fullmatch(Strip(email_result))
        /\ ~EndsLikeImage(email_result)

\* C20, amended: every address find_email returns matches the e-mail pattern
\* as a whole; one found in the text of the page does not end in an image
\* extension; one not found in the text is the address of a mailto anchor of
\* the page, for which no such test is made.
C20_ResultValidAndTextResultNoImageName ==
    EmailReturned =>
        /\ ~Falsy(email_result)
        /\ EMAIL_REGEX_fullmatch(Strip(email_result))
        /\ \E found \in {LastTextScan} :
              IF found # None
              THEN email_result = found /\ ~EndsLikeImage(email_result)
              ELSE email_result \in LastMailtoAddresses

\* C20: find_email has returned the address of a mailto anchor that ends in
\* an image extension, the scan of the text having passed it over
C20_Witness ==
    /\ EmailReturned
    /\ EndsLikeImage(email_result)
    /\ LastTextScan = None
    /\ email_result \in LastMailtoAddresses

====
